---- MODULE Spec2Model ----
(***************************************************************************)
(* Model of src/main.py (Snap Picks API): the odds fetch                   *)
(* (fetch_moneyline_candidates), the selection heuristic                   *)
(* (generate_real_parlay), the response builder (build_parlay_response)    *)
(* and the two /parlay handlers.                                           *)
(*                                                                         *)
(* Units.  Decimal prices are kept in hundredths (1.50 is 150, 2.00 is     *)
(* 200), so float(price) of a JSON number is the same number.  Times are   *)
(* whole days relative to the instant datetime.utcnow() returns (day 0).   *)
(* An optional value (dict.get that may give None) is a sequence of        *)
(* length 0 (None) or 1.                                                   *)
(***************************************************************************)
EXTENDS Integers, Sequences, FiniteSets

VARIABLES
    ODDS_API_KEY,   \* TRUE iff the environment variable is set and non-empty
    upstream,       \* what the odds provider answers: [ok, data]
    status,         \* "idle" before any request, then the outcome of the last one
    request,        \* the last request: [method, sport, style, legs]
    calls,          \* the requests.get calls the last request made (sport keys)
    candidates,     \* fetch_moneyline_candidates' result for the last request
    pool,           \* generate_real_parlay's `pool` (<<>> on the fake-leg path)
    chosen,         \* generate_real_parlay's `chosen` (<<>> on the fake-leg path)
    response        \* the ParlayResponse of the last request

vars == <<ODDS_API_KEY, upstream, status, request, calls, candidates, pool, chosen, response>>

----------------------------------------------------------------------------
(* Bounds of the model *)

\* most events in one provider answer
MaxEvents == 2

\* largest `legs` a GET asks for (the handler itself allows up to LegsMax)
MaxLegs == 4

\* longest legs list a POST carries
MaxPostLegs == 6

(* Program constants *)

\* Query(3, ge=1, le=10)
LegsMin == 1
LegsMax == 10

\* fetch_moneyline_candidates(sport, days=3)
DefaultDays == 3

----------------------------------------------------------------------------
(* Small helpers *)

None == <<>>

Some(x) == <<x>>

Min(a, b) == IF a <= b THEN a ELSE b

Max(a, b) == IF a >= b THEN a ELSE b

MinOf(S) == CHOOSE x \in S : \A y \in S : x <= y

----------------------------------------------------------------------------
(* Inputs *)

Sports == {"nfl", "cfb"}

Styles == {"safe", "normal", "spicy"}

SPORT_KEYS(sport) ==
    CASE sport = "nfl" -> "americanfootball_nfl"
      [] sport = "nba" -> "basketball_nba"
      [] sport = "mlb" -> "baseball_mlb"
      [] sport = "nhl" -> "icehockey_nhl"
      [] sport = "cfb" -> "americanfootball_ncaaf"
      [] OTHER -> sport

\* str.upper() on the sport names
Upper(sport) ==
    CASE sport = "nfl" -> "NFL"
      [] sport = "nba" -> "NBA"
      [] sport = "mlb" -> "MLB"
      [] sport = "nhl" -> "NHL"
      [] sport = "cfb" -> "CFB"
      [] OTHER -> sport

\* One bookmaker holding one market
Book(key, outcomes) == [markets |-> <<[key |-> key, outcomes |-> outcomes]>>]

Outcome(name, price) == [name |-> name, price |-> price]

FavDog == <<Outcome(Some("A"), Some(150)), Outcome(Some("B"), Some(250))>>

\* commence_time as the provider's JSON carries it: fmt is "isoZ" (ISO with a
\* trailing Z, what dateFormat=iso delivers), "isoNaive" (ISO without offset),
\* "garbage" (not ISO) or "absent" (no such key); t is the instant, in days.
Commence(fmt, t) == [fmt |-> fmt, t |-> t]

Event(ct, bookmakers) == [commence_time |-> ct, bookmakers |-> bookmakers]

\* The events a provider answer is built from
Events ==
    { Event(Commence("isoZ", 1), <<Book("h2h", FavDog)>>),
      Event(Commence("isoZ", 1),
            <<Book("h2h", <<Outcome(Some("C"), Some(200)), Outcome(Some("D"), Some(250))>>)>>),
      Event(Commence("isoZ", 5), <<Book("h2h", FavDog)>>),
      Event(Commence("isoNaive", 1), <<Book("h2h", FavDog)>>),
      Event(Commence("isoNaive", 5), <<Book("h2h", FavDog)>>),
      Event(Commence("isoNaive", 0 - 1), <<Book("h2h", FavDog)>>),
      Event(Commence("absent", 5),
            <<[markets |-> <<[key |-> "spreads", outcomes |-> <<>>],
                             [key |-> "h2h", outcomes |-> FavDog]>>]>>),
      Event(Commence("isoZ", 1), <<>>),
      Event(Commence("isoZ", 1), <<Book("spreads", FavDog), Book("h2h", FavDog)>>),
      Event(Commence("garbage", 5),
            <<Book("h2h", <<Outcome(None, Some(150)), Outcome(Some("E"), None),
                            Outcome(Some("F"), Some(250))>>)>>) }

RECURSIVE SeqsUpTo(_, _)
SeqsUpTo(S, n) ==
    IF n = 0 THEN {<<>>}
    ELSE LET shorter == SeqsUpTo(S, n - 1)
         IN shorter \cup {Append(s, e) : s \in {x \in shorter : Len(x) = n - 1}, e \in S}

\* The provider's answers: a failed call (timeout, bad status, bad JSON) or a
\* list of events
Upstreams ==
    {[ok |-> FALSE, data |-> <<>>]}
        \cup {[ok |-> TRUE, data |-> d] : d \in SeqsUpTo(Events, MaxEvents)}

----------------------------------------------------------------------------
(* fetch_moneyline_candidates *)

\* datetime.utcnow(): a naive datetime (no tzinfo), day 0
UtcNow == [aware |-> FALSE, t |-> 0]

\* now + timedelta(days=days)
PlusDays(dt, days) == [aware |-> dt.aware, t |-> dt.t + days]

\* datetime.fromisoformat(text.replace("Z", "+00:00")): the trailing Z becomes
\* an explicit offset, so the result is timezone-aware; text without an
\* offset gives a naive datetime; anything else raises ValueError.
FromIsoFormat(ct) ==
    CASE ct.fmt = "isoZ"     -> [raised |-> FALSE, aware |-> TRUE,  t |-> ct.t]
      [] ct.fmt = "isoNaive" -> [raised |-> FALSE, aware |-> FALSE, t |-> ct.t]
      [] OTHER               -> [raised |-> TRUE,  aware |-> FALSE, t |-> 0]

\* a <= b on datetimes raises TypeError when exactly one of them is aware
CompareRaises(a, b) == a.aware # b.aware

\* The try block of the loop body: TRUE iff the event goes on to the
\* bookmaker lookup, FALSE iff `continue` skips it.  A missing key
\* (KeyError), a parse failure (ValueError) and a naive/aware comparison
\* (TypeError) all land in `except Exception: pass`.
PassesTimeFilter(event, now, cutoff) ==
    IF event.commence_time.fmt = "absent" THEN TRUE
    ELSE LET commence == FromIsoFormat(event.commence_time)
         IN IF commence.raised THEN TRUE
            ELSE IF CompareRaises(now, commence) THEN TRUE
            ELSE now.t <= commence.t /\ commence.t <= cutoff.t

\* next((m for m in markets if m.get("key") == "h2h"), None)
FirstH2H(markets) ==
    LET hits == {i \in DOMAIN markets : markets[i].key = "h2h"}
    IN IF hits = {} THEN None ELSE Some(markets[MinOf(hits)])

\* The loop over the outcomes, from outcome j on.  A candidate keeps its
\* event (ev: the event's place in the answer); oc, its outcome's place, stands
\* for the identity of the dict object.
RECURSIVE OutcomeCandidates(_, _, _)
OutcomeCandidates(outcomes, ev, j) ==
    IF j > Len(outcomes) THEN <<>>
    ELSE LET o == outcomes[j]
             here == IF o.name = None \/ o.price = None THEN <<>>
                     ELSE <<[team |-> o.name[1], price |-> o.price[1],
                             ev |-> ev, oc |-> j]>>
         IN here \o OutcomeCandidates(outcomes, ev, j + 1)

\* One pass of `for event in data`
EventCandidates(event, ev, now, cutoff) ==
    IF ~PassesTimeFilter(event, now, cutoff) THEN <<>>
    ELSE IF event.bookmakers = <<>> THEN <<>>
    ELSE LET market == FirstH2H(event.bookmakers[1].markets)
         IN IF market = None THEN <<>>
            ELSE OutcomeCandidates(market[1].outcomes, ev, 1)

RECURSIVE FlattenEvents(_, _, _, _)
FlattenEvents(data, ev, now, cutoff) ==
    IF ev > Len(data) THEN <<>>
    ELSE EventCandidates(data[ev], ev, now, cutoff)
             \o FlattenEvents(data, ev + 1, now, cutoff)

\* A fetch that tries the provider a second time when the first call fails
fetch_with_retry(sport, days) ==
    IF ~ODDS_API_KEY THEN [candidates |-> <<>>, calls |-> <<>>]
    ELSE LET api_sport_key == SPORT_KEYS(sport)
         IN IF ~upstream.ok
            THEN [candidates |-> <<>>, calls |-> <<api_sport_key, api_sport_key>>]
            ELSE [candidates |-> FlattenEvents(upstream.data, 1, UtcNow,
                                               PlusDays(UtcNow, days)),
                  calls |-> <<api_sport_key>>]

\* The whole function: its result and the requests.get calls it made.
fetch_moneyline_candidates(sport, days) ==
    IF ~ODDS_API_KEY THEN [candidates |-> <<>>, calls |-> <<>>]
    ELSE LET api_sport_key == SPORT_KEYS(sport)
         IN IF ~upstream.ok
            THEN [candidates |-> <<>>, calls |-> <<api_sport_key>>]
            ELSE [candidates |-> FlattenEvents(upstream.data, 1, UtcNow,
                                               PlusDays(UtcNow, days)),
                  calls |-> <<api_sport_key>>]

----------------------------------------------------------------------------
(* generate_real_parlay *)

ParlayLeg(team, pick) == [team |-> team, pick |-> pick]

\* f"Leg{i+1}" for i in range(legs), written with i counted from 1
LegName(i) ==
    <<"Leg1", "Leg2", "Leg3", "Leg4", "Leg5",
      "Leg6", "Leg7", "Leg8", "Leg9", "Leg10">>[i]

\* Placeholder legs with range(legs - 1): one leg short
FakeLegsShort(legs) == [i \in 1..(legs - 1) |-> ParlayLeg(LegName(i), "ML")]

\* [ParlayLeg(team=f"Leg{i+1}", pick="ML") for i in range(legs)]
FakeLegs(legs) == [i \in 1..legs |-> ParlayLeg(LegName(i), "ML")]

\* sorted() is stable: c goes behind every element whose key is <= its own
RECURSIVE InsertByPrice(_, _)
InsertByPrice(sorted, c) ==
    IF sorted = <<>> THEN <<c>>
    ELSE IF Head(sorted).price <= c.price
         THEN <<Head(sorted)>> \o InsertByPrice(Tail(sorted), c)
         ELSE <<c>> \o sorted

\* The candidates left in provider order (no sort)
Unsorted(cands) == cands

\* sorted(candidates, key=lambda c: c["price"])
RECURSIVE SortedByPrice(_)
SortedByPrice(cands) ==
    IF cands = <<>> THEN <<>>
    ELSE InsertByPrice(SortedByPrice(SubSeq(cands, 1, Len(cands) - 1)),
                       cands[Len(cands)])

\* The list as it is (reversed() forgotten)
NotReversed(xs) == xs

\* list(reversed(xs))
Reversed(xs) == [i \in 1..Len(xs) |-> xs[Len(xs) + 1 - i]]

\* xs[start:], start counted from 0
SliceFrom(xs, start) == SubSeq(xs, start + 1, Len(xs))

\* xs[:n]
SliceTo(xs, n) == SubSeq(xs, 1, Min(n, Len(xs)))

\* The if/elif/else on style
StylePool(candidates_sorted, style) ==
    IF style = "safe" THEN candidates_sorted
    ELSE IF style = "spicy" THEN Reversed(candidates_sorted)
    ELSE LET n == Len(candidates_sorted)
             start == Max(0, n \div 4)
         IN SliceFrom(candidates_sorted, start)

\* The whole function: the legs it returns, with what it fetched and chose.
generate_real_parlay(sport, style, legs) ==
    LET fetched == fetch_moneyline_candidates(sport, DefaultDays)
        cands == fetched.candidates
    IN IF cands = <<>>
       THEN [legs |-> FakeLegs(legs), pool |-> <<>>, chosen |-> <<>>,
             candidates |-> cands, calls |-> fetched.calls]
       ELSE LET candidates_sorted == SortedByPrice(cands)
                style_pool == StylePool(candidates_sorted, style)
                picked == SliceTo(style_pool, legs)
            IN [legs |-> [i \in 1..Len(picked) |-> ParlayLeg(picked[i].team, "ML")],
                pool |-> style_pool, chosen |-> picked,
                candidates |-> cands, calls |-> fetched.calls]

----------------------------------------------------------------------------
(* build_parlay_response *)

\* The table with the default of the 5-leg row
confidence_map_default70(num_legs) ==
    CASE num_legs = 1 -> "92%"
      [] num_legs = 2 -> "88%"
      [] num_legs = 3 -> "82%"
      [] num_legs = 4 -> "76%"
      [] OTHER -> "70%"

\* confidence_map.get(num_legs, "65%")
confidence_map(num_legs) ==
    CASE num_legs = 1 -> "92%"
      [] num_legs = 2 -> "88%"
      [] num_legs = 3 -> "82%"
      [] num_legs = 4 -> "76%"
      [] num_legs = 5 -> "70%"
      [] OTHER -> "65%"

\* The note's text, by its parts: "Live odds parlay: ..." or
\* "Test-only parlay: ... No real odds used."
Note(using_real_odds, num_legs, sport) ==
    [source |-> IF using_real_odds THEN "Live odds parlay" ELSE "Test-only parlay",
     num_legs |-> num_legs, sport |-> Upper(sport)]

build_parlay_response(req, using_real_odds) ==
    LET num_legs == Len(req.legs)
    IN [sport |-> req.sport, legs |-> req.legs, style |-> req.style,
        confidence |-> confidence_map(num_legs),
        note |-> Note(using_real_odds, num_legs, req.sport)]

ParlayRequest(sport, style, legs) == [sport |-> sport, style |-> style, legs |-> legs]

----------------------------------------------------------------------------
(* The service *)

NoResponse == build_parlay_response(ParlayRequest("", "", <<>>), FALSE)

Init ==
    /\ ODDS_API_KEY \in BOOLEAN
    /\ upstream \in Upstreams
    /\ status = "idle"
    /\ request = [method |-> "", sport |-> "", style |-> "", legs |-> 0]
    /\ calls = <<>>
    /\ candidates = <<>>
    /\ pool = <<>>
    /\ chosen = <<>>
    /\ response = NoResponse

\* GET /parlay?sport=..&style=..&legs=..  (the Query validators admit the
\* five sports, the three styles and LegsMin..LegsMax)
parlay_get(sport, style, legs) ==
    /\ legs >= LegsMin /\ legs <= LegsMax
    /\ \E real \in {generate_real_parlay(sport, style, legs)} :
          /\ calls' = real.calls
          /\ candidates' = real.candidates
          /\ pool' = real.pool
          /\ chosen' = real.chosen
          /\ response' = build_parlay_response(
                              ParlayRequest(sport, style, real.legs), TRUE)
    /\ request' = [method |-> "GET", sport |-> sport, style |-> style, legs |-> legs]
    /\ status' = "ok"
    /\ UNCHANGED <<ODDS_API_KEY, upstream>>

\* POST /parlay: echoes the caller's legs
parlay_post(req) ==
    /\ response' = build_parlay_response(req, FALSE)
    /\ request' = [method |-> "POST", sport |-> req.sport, style |-> req.style,
                   legs |-> Len(req.legs)]
    /\ status' = "ok"
    /\ calls' = <<>>
    /\ candidates' = <<>>
    /\ pool' = <<>>
    /\ chosen' = <<>>
    /\ UNCHANGED <<ODDS_API_KEY, upstream>>

\* The legs lists a POST carries
PostLegs == {[i \in 1..n |-> ParlayLeg("X", "Spread")] : n \in 0..MaxPostLegs}

Get == \E sport \in Sports, style \in Styles, legs \in 1..MaxLegs : parlay_get(sport, style, legs)

Post == \E sport \in Sports, legs \in PostLegs : parlay_post(ParlayRequest(sport, "normal", legs))

Next == Get \/ Post

Spec == Init /\ [][Next]_vars

----------------------------------------------------------------------------
(* Vocabulary of the properties *)

\* A GET /parlay has been answered
GetServed == request.method = "GET"

\* The provider was asked and answered with a (possibly empty) list of events
ProviderAnswered == GetServed /\ calls # <<>> /\ upstream.ok

\* Decimal price below 2.00: negative American odds
IsFavorite(c) == c.price < 200

\* Decimal price above 2.00: positive American odds
IsUnderdog(c) == c.price > 200

Favorites == {i \in DOMAIN candidates : IsFavorite(candidates[i])}

Underdogs == {i \in DOMAIN candidates : IsUnderdog(candidates[i])}

\* c's place in the provider's order (candidates differ in <<ev, oc>>)
Place(c) == CHOOSE i \in DOMAIN candidates : candidates[i] = c

\* Every leg of the response is the projection of the chosen candidate of the
\* same rank, and that candidate is one the fetch produced
LegsFromChosen ==
    /\ Len(response.legs) = Len(chosen)
    /\ \A i \in DOMAIN chosen :
          /\ response.legs[i] = [team |-> chosen[i].team, pick |-> "ML"]
          /\ \E k \in DOMAIN candidates : candidates[k] = chosen[i]

\* The legs are the placeholders Leg1..LegN, N the requested count
PlaceholderLegs ==
    /\ Len(response.legs) = request.legs
    /\ \A i \in DOMAIN response.legs :
          response.legs[i] = [team |-> LegName(i), pick |-> "ML"]

----------------------------------------------------------------------------
(* C1 *)

\* C1 (as stated): a GET whose fetch yields at least `legs` candidates
\* answers with exactly `legs` legs, whatever the style.
C1_ExactLegsWhenEnough ==
    (GetServed /\ Len(candidates) >= request.legs)
        => Len(response.legs) = request.legs

(* C2 *)

\* C2 (as stated): no partial responses: a GET ends in an error or in a
\* response that carries exactly the requested number of legs.
C2_NoPartialResponse ==
    GetServed => (status # "ok" \/ Len(response.legs) = request.legs)

(* C3 *)

\* C3 (as stated): when the provider returns zero events, GET /parlay ends
\* in NotFoundError and never in a successful response.
C3_ZeroEventsNotFound ==
    (ProviderAnswered /\ upstream.data = <<>>) => status = "NotFoundError"

\* C3 (amended): when the provider returns zero events, GET /parlay answers
\* successfully with exactly `legs` placeholder legs Leg1..LegN, pick ML.
C3_ZeroEventsPlaceholders ==
    (ProviderAnswered /\ upstream.data = <<>>)
        => (status = "ok" /\ PlaceholderLegs)

C3_Witness ==
    /\ ProviderAnswered /\ upstream.data = <<>>
    /\ request.legs = 3 /\ Len(response.legs) = 3
    /\ response.legs[3].team = "Leg3"

(* C4 *)

\* C4: for style safe, when the candidates hold at least `legs` favorites,
\* every returned leg comes from a favorite candidate.
C4_SafeLegsAreFavorites ==
    (GetServed /\ request.style = "safe" /\ Cardinality(Favorites) >= request.legs)
        => (LegsFromChosen /\ \A i \in DOMAIN chosen : IsFavorite(chosen[i]))

\* Two favorites asked for and returned, an underdog ahead of one of them in
\* the provider's order
C4_Witness ==
    /\ GetServed /\ request.style = "safe" /\ request.legs = 2
    /\ Cardinality(Favorites) >= 2
    /\ Len(response.legs) = 2
    /\ \E u \in Underdogs : \E f \in Favorites : u < f

(* C5 *)

\* C5: for style spicy, when the candidates hold at least `legs` underdogs,
\* every returned leg comes from an underdog candidate.
C5_SpicyLegsAreUnderdogs ==
    (GetServed /\ request.style = "spicy" /\ Cardinality(Underdogs) >= request.legs)
        => (LegsFromChosen /\ \A i \in DOMAIN chosen : IsUnderdog(chosen[i]))

\* Two underdogs asked for and returned, a favorite ahead of one of them in
\* the provider's order
C5_Witness ==
    /\ GetServed /\ request.style = "spicy" /\ request.legs = 2
    /\ Cardinality(Underdogs) >= 2
    /\ Len(response.legs) = 2
    /\ \E f \in Favorites : \E u \in Underdogs : f < u

(* C6 *)

\* C6: the confidence of every response (GET and POST) is fixed by the
\* number of legs the response carries: 1 -> 92%, 2 -> 88%, 3 -> 82%,
\* 4 -> 76%, 5 -> 70%, anything else (0, 6 or more) -> 65%.
C6_ConfidenceByLegCount ==
    status = "ok" =>
        LET n == Len(response.legs)
        IN /\ n = 1 => response.confidence = "92%"
           /\ n = 2 => response.confidence = "88%"
           /\ n = 3 => response.confidence = "82%"
           /\ n = 4 => response.confidence = "76%"
           /\ n = 5 => response.confidence = "70%"
           /\ n \notin 1..5 => response.confidence = "65%"

\* A POST that echoed six legs
C6_Witness ==
    /\ status = "ok" /\ request.method = "POST"
    /\ Len(response.legs) = 6
    /\ response.confidence = "65%"

(* C7 *)

\* C7 (as stated): every GET makes exactly one call to the provider,
\* whatever the configuration and the outcome.
C7_ExactlyOneCall == GetServed => Len(calls) = 1

\* C7 (amended): a GET makes exactly one call to the provider when
\* ODDS_API_KEY is set, whatever the call's outcome, and none when it is not
\* set; never more than one.
C7_OneCallIffKey ==
    GetServed => Len(calls) = (IF ODDS_API_KEY THEN 1 ELSE 0)

\* The key is set, the call failed, and it was not repeated
C7_Witness ==
    /\ GetServed /\ ODDS_API_KEY /\ ~upstream.ok
    /\ Len(calls) = 1

(* C8 *)

\* C8 (as stated): the note says "Live odds parlay" only when the legs come
\* from odds the provider returned; placeholder legs and echoed legs carry
\* the "Test-only parlay" note.
C8_NoteNamesSource ==
    status = "ok" =>
        /\ response.note.source = "Live odds parlay"
              => (GetServed /\ candidates # <<>> /\ LegsFromChosen)
        /\ (request.method = "POST" \/ (GetServed /\ candidates = <<>>))
              => response.note.source = "Test-only parlay"

(* C9 *)

\* C9 (as stated): for every style, two selected candidates of equal price
\* keep the provider's order, and of two candidates of equal price in the
\* pool of which only one is selected, the selected one is the earlier in
\* the provider's order.
C9_StableTieBreak ==
    GetServed =>
        /\ \A i, j \in DOMAIN chosen :
              (i < j /\ chosen[i].price = chosen[j].price)
                  => Place(chosen[i]) < Place(chosen[j])
        /\ \A i \in DOMAIN chosen : \A k \in DOMAIN pool :
              (k > Len(chosen) /\ pool[k].price = chosen[i].price)
                  => Place(chosen[i]) < Place(pool[k])

(* C10 *)

\* C10 (as stated): an event whose commence_time is a valid ISO timestamp
\* outside [now, now + days] contributes no candidate.
C10_OutOfWindowContributesNothing ==
    ProviderAnswered =>
        \A ev \in DOMAIN upstream.data :
            LET ct == upstream.data[ev].commence_time
            IN (ct.fmt \in {"isoZ", "isoNaive"} /\ ~(0 <= ct.t /\ ct.t <= DefaultDays))
                  => \A i \in DOMAIN candidates : candidates[i].ev # ev

====
